---- MODULE Spec2Model ----
(***************************************************************************)
(* Model of src/entrypoint.py: the chunk / review / summarize / format /   *)
(* publish pipeline run by main().                                         *)
(*                                                                         *)
(* A text is a sequence of fragments (TLA+ strings).  The diff is a        *)
(* sequence of one-character fragments, so that len() and slicing are      *)
(* Len and SubSeq; the fixed prompts and the markup of the comment         *)
(* template are single fragments holding the literal text of the source.   *)
(* String concatenation (+, join, f-string) is \o.                         *)
(*                                                                         *)
(* The model service and the comment sink are external: the service        *)
(* records each conversation it is sent and answers with any text of       *)
(* ReviewTexts or raises; the sink accepts, rejects (non-2xx response) or  *)
(* is unreachable (requests raises).                                       *)
(***************************************************************************)
EXTENDS Integers, Sequences, FiniteSets, TLC

VARIABLES
    pc,                 \* position of main(): see the actions
    error,              \* the exception that ended the run, "none" while none
    env_ok,             \* input: all required environment variables are set
    pr_number_ok,       \* input: GITHUB_PULL_REQUEST_NUMBER parses as an int
    diff,               \* input: content handed to get_review
    prompt_chunk_size,  \* input: --diff-chunk-size
    chunked_diff_list,  \* get_review: the chunks
    chunked_reviews,    \* get_review: the replies collected so far
    summarized_review,  \* get_review: second component of the return value
    calls,              \* model service: the conversations it was sent
    review_comment,     \* main: <<>> while unbound, <<text>> once formatted
    posts,              \* comment sink: bodies of the requests it received
    response            \* main: what requests.post returned, "none" before

vars == <<pc, error, env_ok, pr_number_ok, diff, prompt_chunk_size,
          chunked_diff_list, chunked_reviews, summarized_review, calls,
          review_comment, posts, response>>

----------------------------------------------------------------------------
(* Bounds of the model. *)

\* longest diff
MaxLen == 3
\* chunk sizes range over -MaxSize .. MaxSize
MaxSize == 3
\* longest chunked_reviews list handed to format_review_comment on its own
MaxReviews == 3

DiffChars == {"a", "b"}

RECURSIVE SeqsUpTo(_, _)
SeqsUpTo(S, n) ==
    IF n = 0 THEN {<<>>}
    ELSE LET shorter == SeqsUpTo(S, n - 1)
         IN  shorter \cup {Append(s, x) : s \in {t \in shorter : Len(t) = n - 1}, x \in S}

Diffs == SeqsUpTo(DiffChars, MaxLen)
ChunkSizes == (0 - MaxSize) .. MaxSize

\* texts the model service may answer with (convo.last.text)
ReviewTexts == {<<"x">>, <<"y", "\n", "y">>, <<>>}

----------------------------------------------------------------------------
(* Pure functions of the source. *)

Min(a, b) == IF a < b THEN a ELSE b

\* input_string[i:j] for 0 <= i, i <= j (Python clamps j to the length)
Slice(s, i, j) == SubSeq(s, i + 1, Min(j, Len(s)))

\* list(range(start, stop, step)) for step # 0
RECURSIVE range(_, _, _)
range(start, stop, step) ==
    IF (step > 0 /\ start < stop) \/ (step < 0 /\ start > stop)
    THEN <<start>> \o range(start + step, stop, step)
    ELSE <<>>

\* range() raises ValueError for a zero step
chunk_string_raises(input_string, chunk_size) == chunk_size = 0

\* mutant: the loop stops before a final chunk shorter than chunk_size
chunk_string_drops_remainder(input_string, chunk_size) ==
    LET idx == range(0, Len(input_string) - chunk_size + 1, chunk_size)
    IN  [k \in 1 .. Len(idx) |-> Slice(input_string, idx[k], idx[k] + chunk_size)]

chunk_string(input_string, chunk_size) ==
    LET idx == range(0, Len(input_string), chunk_size)
    IN  [k \in 1 .. Len(idx) |-> Slice(input_string, idx[k], idx[k] + chunk_size)]

\* sep.join(list)
RECURSIVE join(_, _)
join(sep, list) ==
    IF Len(list) = 0 THEN <<>>
    ELSE IF Len(list) = 1 THEN list[1]
    ELSE list[1] \o sep \o join(sep, Tail(list))

get_review_prompt ==
    <<"\n    This is a pull request or part of a pull request if the pull request is very large.\n    Suppose you review this PR as an excellent software engineer and an excellent security engineer.\n    Can you tell me the issues with differences in a pull request and provide suggestions to improve it?\n    You can provide a review summary and issue comments per file if any major issues are found.\n    Always include the name of the file that is citing the improvement or problem.\n    In the next messages I will be sending you the difference between the GitHub file codes, okay?\n    ">>

get_summarize_prompt ==
    <<"\n    Can you summarize this for me?\n    It would be good to stick to highlighting pressing issues and providing code suggestions to improve the pull request.\n    Here's what you need to summarize:\n    ">>

no_changes_prompt ==
    <<"Say that you didn't find any relevant changes to comment on any file">>

\* mutant: the conversation is seeded with the prompt but not the acknowledgment
review_history_without_ack ==
    << [role |-> "user", parts |-> <<get_review_prompt>>] >>

\* history=[...] of the per-chunk start_chat
review_history ==
    << [role |-> "user", parts |-> <<get_review_prompt>>],
       [role |-> "model", parts |-> << <<"Ok">> >>] >>

\* mutant: the early return is taken for two reviews instead of one
returns_sole_review_of_two(reviews) == Len(reviews) = 2

\* the early return of get_review
returns_sole_review(reviews) == Len(reviews) = 1

Reverse(list) == [k \in 1 .. Len(list) |-> list[Len(list) + 1 - k]]

\* mutant: the reviews are joined last chunk first
summarize_message_reversed(reviews) ==
    LET summarize_prompt == IF Len(reviews) = 0 THEN no_changes_prompt
                            ELSE get_summarize_prompt
    IN  summarize_prompt \o <<"\n\n">> \o join(<<"\n">>, Reverse(reviews))

\* mutant: the empty case is not told apart, the summarization prompt is sent
summarize_message_one_prompt(reviews) ==
    get_summarize_prompt \o <<"\n\n">> \o join(<<"\n">>, reviews)

\* the argument of the summarization send_message
summarize_message(reviews) ==
    LET summarize_prompt == IF Len(reviews) = 0 THEN no_changes_prompt
                            ELSE get_summarize_prompt
    IN  summarize_prompt \o <<"\n\n">> \o join(<<"\n">>, reviews)

\* mutant: the single review is wrapped in the template like any other
format_review_comment_always_wraps(summarized, reviews) ==
    <<"<details>\n    <summary>">> \o summarized \o <<"</summary>\n    ">>
    \o join(<<"\n">>, reviews) \o <<"\n    </details>\n    ">>

\* mutant: the two placeholders of the template are swapped
format_review_comment_detail_first(summarized, reviews) ==
    IF Len(reviews) = 1 THEN summarized
    ELSE <<"<details>\n    <summary>">> \o join(<<"\n">>, reviews)
         \o <<"</summary>\n    ">> \o summarized \o <<"\n    </details>\n    ">>

format_review_comment(summarized, reviews) ==
    IF Len(reviews) = 1 THEN summarized
    ELSE <<"<details>\n    <summary>">> \o summarized \o <<"</summary>\n    ">>
         \o join(<<"\n">>, reviews) \o <<"\n    </details>\n    ">>

----------------------------------------------------------------------------
(* The run of main(). *)

Init ==
    /\ pc = "start"
    /\ error = "none"
    /\ env_ok \in BOOLEAN
    /\ pr_number_ok \in BOOLEAN
    /\ diff \in Diffs
    /\ prompt_chunk_size \in ChunkSizes
    /\ chunked_diff_list = <<>>
    /\ chunked_reviews = <<>>
    /\ summarized_review = <<>>
    /\ calls = <<>>
    /\ review_comment = <<>>
    /\ posts = <<>>
    /\ response = "none"

Raise(e) == pc' = "failed" /\ error' = e

check_required_env_vars ==
    /\ pc = "start"
    /\ IF env_ok THEN pc' = "get_review" /\ error' = error
                 ELSE Raise("ValueError: not set")
    /\ UNCHANGED <<env_ok, pr_number_ok, diff, prompt_chunk_size, chunked_diff_list,
                   chunked_reviews, summarized_review, calls, review_comment, posts,
                   response>>

\* get_review up to the loop: chunk the content
ChunkDiff ==
    /\ pc = "get_review"
    /\ IF chunk_string_raises(diff, prompt_chunk_size)
       THEN Raise("ValueError: range") /\ UNCHANGED chunked_diff_list
       ELSE /\ chunked_diff_list' = chunk_string(diff, prompt_chunk_size)
            /\ pc' = "loop"
            /\ error' = error
    /\ UNCHANGED <<env_ok, pr_number_ok, diff, prompt_chunk_size,
                   chunked_reviews, summarized_review, calls, review_comment, posts,
                   response>>

\* what is left unchanged by every step inside get_review
GetReviewFrame ==
    UNCHANGED <<env_ok, pr_number_ok, diff, prompt_chunk_size, chunked_diff_list,
                review_comment, posts, response>>

\* the conversation a send_message submits, as the service records it
Call(history, message) ==
    [history |-> history, message |-> message, status |-> "pending", reply |-> <<>>]

Outstanding == Len(calls) > 0 /\ calls[Len(calls)].status = "pending"

Answered(reply) == [calls EXCEPT ![Len(calls)].status = "replied",
                                 ![Len(calls)].reply = reply]

Refused == [calls EXCEPT ![Len(calls)].status = "failed"]

\* the chunk the loop is at: one reply has been appended per finished iteration
NextChunk == Len(chunked_reviews) + 1

\* loop body, first half: start_chat(history=[...]) and send_message(chunked_diff)
SendChunk ==
    /\ pc = "loop"
    /\ NextChunk <= Len(chunked_diff_list)
    /\ calls' = Append(calls, Call(review_history, chunked_diff_list[NextChunk]))
    /\ pc' = "await_review"
    /\ UNCHANGED <<error, chunked_reviews, summarized_review>>
    /\ GetReviewFrame

\* loop body, second half: the reply arrives and is appended
ReceiveReview ==
    /\ pc = "await_review"
    /\ \E review_result \in ReviewTexts :
          /\ calls' = Answered(review_result)
          /\ chunked_reviews' = Append(chunked_reviews, review_result)
    /\ pc' = "loop"
    /\ UNCHANGED <<error, summarized_review>>
    /\ GetReviewFrame

\* mutant: the exception is caught, an empty review recorded, the loop goes on
ReviewCallFails_swallowed ==
    /\ pc = "await_review"
    /\ calls' = Refused
    /\ chunked_reviews' = Append(chunked_reviews, <<>>)
    /\ pc' = "loop"
    /\ UNCHANGED <<error, summarized_review>>
    /\ GetReviewFrame

\* send_message raises: nothing catches it in get_review or in main
ReviewCallFails ==
    /\ pc = "await_review"
    /\ calls' = Refused
    /\ Raise("model call failed")
    /\ UNCHANGED <<chunked_reviews, summarized_review>>
    /\ GetReviewFrame

\* after the loop, one review: return chunked_reviews, chunked_reviews[0]
ReturnSoleReview ==
    /\ pc = "loop"
    /\ NextChunk > Len(chunked_diff_list)
    /\ returns_sole_review(chunked_reviews)
    /\ summarized_review' = chunked_reviews[1]
    /\ pc' = "format"
    /\ UNCHANGED <<error, chunked_reviews, calls>>
    /\ GetReviewFrame

\* after the loop otherwise: start_chat(history=[]) and send_message(prompt + joined)
SendSummary ==
    /\ pc = "loop"
    /\ NextChunk > Len(chunked_diff_list)
    /\ ~returns_sole_review(chunked_reviews)
    /\ calls' = Append(calls, Call(<<>>, summarize_message(chunked_reviews)))
    /\ pc' = "await_summary"
    /\ UNCHANGED <<error, chunked_reviews, summarized_review>>
    /\ GetReviewFrame

\* the summary arrives: return chunked_reviews, summarized_review
ReceiveSummary ==
    /\ pc = "await_summary"
    /\ \E text \in ReviewTexts :
          /\ calls' = Answered(text)
          /\ summarized_review' = text
    /\ pc' = "format"
    /\ UNCHANGED <<error, chunked_reviews>>
    /\ GetReviewFrame

SummaryCallFails ==
    /\ pc = "await_summary"
    /\ calls' = Refused
    /\ Raise("model call failed")
    /\ UNCHANGED <<chunked_reviews, summarized_review>>
    /\ GetReviewFrame

\* main: review_comment = format_review_comment(...)
Format ==
    /\ pc = "format"
    /\ review_comment' = <<format_review_comment(summarized_review, chunked_reviews)>>
    /\ pc' = "publish"
    /\ UNCHANGED <<error, env_ok, pr_number_ok, diff, prompt_chunk_size,
                   chunked_diff_list, chunked_reviews, summarized_review, calls,
                   posts, response>>

PublishFrame ==
    UNCHANGED <<env_ok, pr_number_ok, diff, prompt_chunk_size, chunked_diff_list,
                chunked_reviews, summarized_review, calls, review_comment>>

\* int(os.getenv("GITHUB_PULL_REQUEST_NUMBER")) raises before the request is made
PullRequestNumberInvalid ==
    /\ pc = "publish"
    /\ ~pr_number_ok
    /\ Raise("ValueError: int")
    /\ UNCHANGED <<posts, response>>
    /\ PublishFrame

\* requests.post returns a response; main drops it and returns
PublishAnswered ==
    /\ pc = "publish"
    /\ pr_number_ok
    /\ posts' = Append(posts, review_comment[1])
    /\ \E r \in {"success", "rejected"} : response' = r
    /\ pc' = "done"
    /\ UNCHANGED error
    /\ PublishFrame

\* requests.post raises (connection error): nothing catches it
PublishUnreachable ==
    /\ pc = "publish"
    /\ pr_number_ok
    /\ Raise("requests exception")
    /\ UNCHANGED <<posts, response>>
    /\ PublishFrame

Next ==
    \/ check_required_env_vars
    \/ ChunkDiff
    \/ SendChunk
    \/ ReceiveReview
    \/ ReviewCallFails
    \/ ReturnSoleReview
    \/ SendSummary
    \/ ReceiveSummary
    \/ SummaryCallFails
    \/ Format
    \/ PullRequestNumberInvalid
    \/ PublishAnswered
    \/ PublishUnreachable

Spec == Init /\ [][Next]_vars

----------------------------------------------------------------------------
(* format_review_comment on its own: main() entered at the formatting step  *)
(* with every pair of arguments up to the bounds.                           *)

InitFormat ==
    /\ pc = "format"
    /\ error = "none"
    /\ env_ok = TRUE
    /\ pr_number_ok \in BOOLEAN
    /\ diff = <<>>
    /\ prompt_chunk_size = 1
    /\ chunked_diff_list = <<>>
    /\ chunked_reviews \in SeqsUpTo(ReviewTexts, MaxReviews)
    /\ summarized_review \in ReviewTexts
    /\ calls = <<>>
    /\ review_comment = <<>>
    /\ posts = <<>>
    /\ response = "none"

NextFormat == Format

SpecFormat == InitFormat /\ [][NextFormat]_vars

----------------------------------------------------------------------------
(* Vocabulary of the properties. *)

\* chunk_string returned inside get_review
Chunked ==
    /\ pc \notin {"start", "get_review"}
    /\ error \notin {"ValueError: not set", "ValueError: range"}

\* get_review returned its pair to main
GetReviewReturned ==
    \/ pc \in {"format", "publish", "done"}
    \/ pc = "failed" /\ error \in {"ValueError: int", "requests exception"}

\* the concatenation of the texts of a list, in order
RECURSIVE Flatten(_)
Flatten(list) == IF Len(list) = 0 THEN <<>> ELSE Head(list) \o Flatten(Tail(list))

\* ceil(a / b) for a >= 0, b > 0
CeilDiv(a, b) == (a + b - 1) \div b

\* the texts of a list with a newline between neighbours, built from the back
RECURSIVE NewlineJoined(_)
NewlineJoined(list) ==
    IF Len(list) = 0 THEN <<>>
    ELSE LET front == SubSeq(list, 1, Len(list) - 1)
         IN  IF Len(front) = 0 THEN list[Len(list)]
             ELSE NewlineJoined(front) \o <<"\n">> \o list[Len(list)]

IsPrefix(p, s) == Len(p) <= Len(s) /\ SubSeq(s, 1, Len(p)) = p
IsSuffix(p, s) == Len(p) <= Len(s) /\ SubSeq(s, Len(s) - Len(p) + 1, Len(s)) = p

\* text p occurs in s starting at position at
OccursAt(p, s, at) == at + Len(p) - 1 <= Len(s) /\ SubSeq(s, at, at + Len(p) - 1) = p

\* a conversation seeded with exactly [user: review prompt, model: "Ok"]
SeededWithReviewPrompt(h) ==
    /\ Len(h) = 2
    /\ h[1].role = "user" /\ h[1].parts = <<get_review_prompt>>
    /\ h[2].role = "model" /\ h[2].parts = << <<"Ok">> >>

Replies(k) == [j \in 1 .. k |-> calls[j].reply]

----------------------------------------------------------------------------
(* C1. For a positive chunk size the chunks, concatenated in order, are the *)
(* input exactly, and there are ceil(len/size) of them: none for the empty  *)
(* input.                                                                   *)
C1_ChunksReconstructInput ==
    (Chunked /\ prompt_chunk_size > 0) =>
        /\ Flatten(chunked_diff_list) = diff
        /\ Len(chunked_diff_list) =
              IF Len(diff) = 0 THEN 0 ELSE CeilDiv(Len(diff), prompt_chunk_size)
        /\ \A k \in 1 .. Len(chunked_diff_list) : Len(chunked_diff_list[k]) > 0

\* a diff that does not divide evenly has been chunked
C1_Witness ==
    /\ Chunked
    /\ prompt_chunk_size = 2
    /\ Len(diff) = 3
    /\ Len(chunked_diff_list) = 2

(* C2. With exactly one chunk there is one model call, the per-chunk one,   *)
(* never a summarization call, and get_review returns the reply to that     *)
(* call both as the list and as the final review.                           *)
C2_SingleChunkNoSummary ==
    (Chunked /\ Len(chunked_diff_list) = 1) =>
        /\ Len(calls) <= 1
        /\ \A j \in 1 .. Len(calls) :
              /\ SeededWithReviewPrompt(calls[j].history)
              /\ calls[j].message = chunked_diff_list[1]
        /\ GetReviewReturned =>
              /\ Len(calls) = 1
              /\ calls[1].status = "replied"
              /\ chunked_reviews = <<summarized_review>>
              /\ summarized_review = calls[1].reply

C2_Witness ==
    /\ pc = "done"
    /\ Len(chunked_diff_list) = 1
    /\ Len(calls) = 1
    /\ summarized_review = <<"x">>

(* C3. With k >= 2 chunks the only unseeded conversation is call k+1, sent  *)
(* once all k per-chunk calls are answered; its message starts with the     *)
(* summarization prompt and ends with the k replies joined by newline in    *)
(* chunk order; its reply is the final review get_review returns.           *)
C3_SummaryAfterAllChunks ==
    LET k == Len(chunked_diff_list) IN
    (Chunked /\ k >= 2) =>
        /\ Len(calls) <= k + 1
        /\ \A j \in 1 .. Len(calls) :
              calls[j].history = <<>> =>
                 /\ j = k + 1
                 /\ \A m \in 1 .. k : calls[m].status = "replied"
                 /\ IsPrefix(get_summarize_prompt, calls[j].message)
                 /\ IsSuffix(NewlineJoined(Replies(k)), calls[j].message)
                 /\ Len(calls[j].message) >=
                       Len(get_summarize_prompt) + Len(NewlineJoined(Replies(k)))
        /\ GetReviewReturned =>
              /\ Len(calls) = k + 1
              /\ calls[k + 1].history = <<>>
              /\ calls[k + 1].status = "replied"
              /\ summarized_review = calls[k + 1].reply
              /\ chunked_reviews = Replies(k)

C3_Witness ==
    /\ pc = "done"
    /\ Len(chunked_diff_list) = 3
    /\ chunked_reviews[1] = <<"x">>
    /\ chunked_reviews[3] = <<"y", "\n", "y">>
    /\ summarized_review = <<"x">>

(* C4. With the empty input there is never a per-chunk call; get_review     *)
(* sends one unseeded conversation whose message is the fixed "no relevant  *)
(* changes" instruction followed by separators only, and returns no chunk   *)
(* reviews together with the reply to that call.                            *)
C4_EmptyInputOneShot ==
    (Chunked /\ Len(diff) = 0) =>
        /\ Len(chunked_diff_list) = 0
        /\ Len(calls) <= 1
        /\ \A j \in 1 .. Len(calls) :
              /\ calls[j].history = <<>>
              /\ IsPrefix(no_changes_prompt, calls[j].message)
              /\ \A i \in Len(no_changes_prompt) + 1 .. Len(calls[j].message) :
                    calls[j].message[i] \in {"\n", "\n\n"}
        /\ GetReviewReturned =>
              /\ Len(calls) = 1
              /\ calls[1].status = "replied"
              /\ chunked_reviews = <<>>
              /\ summarized_review = calls[1].reply

C4_Witness ==
    /\ pc = "done"
    /\ Len(diff) = 0
    /\ Len(calls) = 1
    /\ summarized_review = <<"x">>

(* C5, as stated. format_review_comment with one chunk review returns that  *)
(* chunk review, whatever final review it is given.                         *)
C5_ReturnsTheChunkReview ==
    (pc = "publish" /\ Len(chunked_reviews) = 1) =>
        review_comment = <<chunked_reviews[1]>>

(* C5, amended. format_review_comment with one chunk review returns its     *)
(* final-review argument unchanged, nothing added: that is the chunk review *)
(* when the two arguments agree.                                            *)
C5_ReturnsTheFinalReview ==
    (pc = "publish" /\ Len(chunked_reviews) = 1) =>
        /\ review_comment = <<summarized_review>>
        /\ summarized_review = chunked_reviews[1] =>
              review_comment = <<chunked_reviews[1]>>

\* format_review_comment was given one chunk review and another final review
C5_Witness ==
    /\ pc = "publish"
    /\ Len(chunked_reviews) = 1
    /\ chunked_reviews[1] = <<"x">>
    /\ summarized_review = <<"y", "\n", "y">>

(* C6. format_review_comment with a number of chunk reviews other than one  *)
(* returns a text in which the final review occurs and, after it, the chunk *)
(* reviews joined by newline, unmodified and in order.                      *)
C6_SummaryThenJoinedReviews ==
    (pc = "publish" /\ Len(chunked_reviews) # 1) =>
        LET comment == review_comment[1]
            joined == NewlineJoined(chunked_reviews)
        IN  \E p, q \in 1 .. Len(comment) + 1 :
               /\ OccursAt(summarized_review, comment, p)
               /\ OccursAt(joined, comment, q)
               /\ q >= p + Len(summarized_review)
               /\ p > 1
               /\ q + Len(joined) <= Len(comment)

C6_Witness ==
    /\ pc = "publish"
    /\ Len(chunked_reviews) = 3
    /\ chunked_reviews[1] = <<"x">>
    /\ chunked_reviews[3] = <<"y", "\n", "y">>
    /\ summarized_review = <<"x">>

(* C7. A failed model call ends the run at once: it is the last call the    *)
(* service sees, the run has failed with that error, nothing was formatted  *)
(* and the comment sink received nothing.                                   *)
C7_ModelFailureAbortsRun ==
    \A j \in 1 .. Len(calls) :
        calls[j].status = "failed" =>
            /\ j = Len(calls)
            /\ pc = "failed"
            /\ error = "model call failed"
            /\ review_comment = <<>>
            /\ posts = <<>>
            /\ response = "none"

\* a per-chunk call failed after an earlier chunk had been reviewed
C7_Witness ==
    /\ Len(calls) = 2
    /\ calls[2].status = "failed"
    /\ Len(chunked_reviews) = 1

(* C8, as stated. chunk_string rejects every chunk size <= 0 for a          *)
(* non-empty input: get_review never gets a list of chunks back.            *)
C8_NonPositiveSizeRejected ==
    (pc \notin {"start", "get_review"} /\ error # "ValueError: not set"
       /\ prompt_chunk_size <= 0 /\ Len(diff) > 0) =>
        pc = "failed" /\ error = "ValueError: range"

(* C9, as stated. A run in which the sink rejected the comment does not end *)
(* as successful.                                                           *)
C9_RejectedPublishFailsRun ==
    response = "rejected" => pc # "done"

(* C10. Per-chunk calls go out one at a time in chunk order: call j is      *)
(* seeded with exactly [user: review prompt, model: "Ok"] and carries chunk *)
(* j alone, every call before the last is answered, and the j-th chunk      *)
(* review is the reply to call j.                                           *)
C10_SequentialChunkCalls ==
    Chunked =>
        /\ \A j \in 1 .. Len(calls) :
              /\ calls[j].status # "replied" => j = Len(calls)
              /\ j <= Len(chunked_diff_list) =>
                    /\ SeededWithReviewPrompt(calls[j].history)
                    /\ calls[j].message = chunked_diff_list[j]
              /\ j > Len(chunked_diff_list) => calls[j].history = <<>>
        /\ Len(chunked_reviews) <= Len(chunked_diff_list)
        /\ Len(chunked_reviews) <= Len(calls)
        /\ \A j \in 1 .. Len(chunked_reviews) :
              /\ calls[j].status = "replied"
              /\ chunked_reviews[j] = calls[j].reply
        /\ Cardinality({j \in 1 .. Len(calls) : calls[j].status = "pending"}) <= 1

C10_Witness ==
    /\ Len(chunked_diff_list) = 3
    /\ chunked_diff_list[1] # chunked_diff_list[3]
    /\ Len(chunked_reviews) = 3
    /\ chunked_reviews[1] # chunked_reviews[2]
====
